---- MODULE Spec2Model ----
(***************************************************************************)
(* The currency store of src/src/utils/currency.py: a write-back cache of  *)
(* (balance, last_daily, last_activity) entries over per-shard JSON files, *)
(* a timer thread that flushes the cache to the files through a worker     *)
(* pool and then evicts inactive entries, and the ledger API.              *)
(*                                                                         *)
(* Time is counted in ticks of 300 s, so INACTIVE_TTL and FLUSH_INTERVAL   *)
(* (both 300 s in the source) are one tick.  Sizes are scaled down:        *)
(* four shards instead of 32, a cache cap of one entry, not 250,000,       *)
(* and a round budget of two entries' estimated bytes instead of 70 MB.    *)
(***************************************************************************)
EXTENDS Integers, Sequences, FiniteSets, TLC

VARIABLES
    cache,      \* self._cache: qq -> [bal, daily, act, ord]
    file,       \* the shard files: shard id -> [kind, balances, last_daily]
    now,        \* time.time(), in ticks
    timer,      \* the timer thread: [pc, t, failed, deferred]; t: the
                \* wake-up time or the round's start
    tasks,      \* the executor's unfinished or unreaped flush tasks
    locks,      \* self._shard_locks: shard id -> the owning thread or NoThread
    thr,        \* the API callers of SpecLock: caller -> [pc, op, qq, ...]
    truth,      \* history: qq -> what the API calls have acknowledged
    flushed,    \* history: qq -> the balance of the last completed flush
    evicted,    \* history: the ids an eviction pass removed, until reloaded
    seq,        \* history: qq -> the balance of the sequential ledger
    calls,      \* history: the number of API calls made
    last        \* history: the step that has just been taken

vars == <<cache, file, now, timer, tasks, locks, thr, truth, flushed, evicted,
          seq, calls, last>>

lockvars == <<locks, thr, seq>>

----------------------------------------------------------------------------
(* Program constants (scaled, see above) and the bounds of the model.      *)

NUM_SHARDS == 4
INACTIVE_TTL == 1
FLUSH_INTERVAL == 1
MAX_CACHE_SIZE == 1
BYTES_PER_USER_EST == 55
MAX_BYTES_PER_ROUND == 220
MAX_BYTES_PER_FILE == 220
FLUSH_WORKERS == 2

MaxBal == 1
MaxTime == 2
MaxCalls == 3

\* the entities of Spec: 1 and 5 share shard 1
Ids == {1, 5}
Shards == 0 .. (NUM_SHARDS - 1)

Max(a, b) == IF a >= b THEN a ELSE b
Min(a, b) == IF a <= b THEN a ELSE b

----------------------------------------------------------------------------
(* Strings are sequences of one-character strings.                         *)

Digits == <<"0", "1", "2", "3", "4", "5", "6", "7", "8", "9">>
IsDigit(c) == \E i \in 1..10 : Digits[i] = c
DigitVal(c) == (CHOOSE i \in 1..10 : Digits[i] = c) - 1

\* s.split("-")
RECURSIVE SplitDash(_)
SplitDash(s) ==
    IF s = <<>> THEN << <<>> >>
    ELSE LET rest == SplitDash(Tail(s))
         IN  IF Head(s) = "-"
             THEN << <<>> >> \o rest
             ELSE << <<Head(s)>> \o Head(rest) >> \o Tail(rest)

\* int(part) raises ValueError unless part is a decimal numeral
IsDecimal(p) == p # <<>> /\ \A i \in 1..Len(p) : IsDigit(p[i])

RECURSIVE ParseInt(_)
ParseInt(p) ==
    IF p = <<>> THEN 0
    ELSE ParseInt(SubSeq(p, 1, Len(p) - 1)) * 10 + DigitVal(p[Len(p)])

\* f"{n}"
RECURSIVE IntToStr(_)
IntToStr(n) ==
    IF n < 10 THEN <<Digits[n + 1]>>
    ELSE IntToStr(n \div 10) \o <<Digits[(n % 10) + 1]>>

\* f"{n:02d}"
Pad2(n) == IF n < 10 THEN <<"0">> \o IntToStr(n) ELSE IntToStr(n)

\* None, as a date string
NoDate == <<>>

\* "YYYY-MM-DD" -> YYYYMMDD; None, "" or anything unparsable -> 0
_date_str_to_int(s) ==
    IF s = NoDate THEN 0
    ELSE LET parts == SplitDash(s)
         IN  IF Len(parts) # 3 THEN 0
             ELSE IF \E i \in 1..3 : ~IsDecimal(parts[i]) THEN 0
             ELSE ParseInt(parts[1]) * 10000 + ParseInt(parts[2]) * 100
                  + ParseInt(parts[3])

\* YYYYMMDD -> "YYYY-MM-DD"; 0 -> None
_date_int_to_str(i) ==
    IF i <= 0 THEN NoDate
    ELSE LET y == i \div 10000
             m == (i % 10000) \div 100
             d == i % 100
         IN  IntToStr(y) \o <<"-">> \o Pad2(m) \o <<"-">> \o Pad2(d)

----------------------------------------------------------------------------
(* Shard files.  kind: "missing" (no such file), "malformed" (not JSON: a   *)
(* truncated or half-written file included), "notobj" (JSON, but not an    *)
(* object), "ok" (an object; absent keys read as empty maps).  The keys    *)
(* str(qq) of the two maps are the canonical decimal numerals of the ids,  *)
(* in one-to-one correspondence with them, and are written as the ids.     *)

EmptyMap == [k \in {} |-> 0]

FileOf(kind, balances, last_daily) ==
    [kind |-> kind, balances |-> balances, last_daily |-> last_daily]

MissingFile == FileOf("missing", EmptyMap, EmptyMap)
MalformedFile == FileOf("malformed", EmptyMap, EmptyMap)
NotObjFile == FileOf("notobj", EmptyMap, EmptyMap)
EmptyShardFile == FileOf("ok", EmptyMap, EmptyMap)

EmptyData == [balances |-> EmptyMap, last_daily |-> EmptyMap]

\* _read_shard_file raises (AttributeError at data.setdefault)
ReadRaises(f) == f.kind = "notobj"

\* what _read_shard_file returns when it does not raise
_read_shard_file(f) ==
    IF f.kind = "ok"
    THEN [balances |-> f.balances, last_daily |-> f.last_daily]
    ELSE EmptyData

\* dict.get(k, default)
DictGet(d, k, default) == IF k \in DOMAIN d THEN d[k] ELSE default

\* d[k] = v
DictPut(d, k, v) == [x \in DOMAIN d \cup {k} |-> IF x = k THEN v ELSE d[x]]

\* d.pop(k, None)
DictPop(d, k) == [x \in DOMAIN d \ {k} |-> d[x]]

\* a routing by the quotient instead of the remainder
ShardOfQuotient(qq) == (qq \div NUM_SHARDS) % NUM_SHARDS

_shard_id(qq) == qq % NUM_SHARDS

IdsOfShard(c, s) == {qq \in DOMAIN c : _shard_id(qq) = s}

\* a cache entry (balance, last_daily, last_activity).  act is the tick of
\* last_activity; ord, the number of the API call that set it, orders the
\* timestamps within a tick (time.time() of a later call is later)
Entry(bal, daily, act, ord) ==
    [bal |-> bal, daily |-> daily, act |-> act, ord |-> ord]

\* one entry merged into the data read from the file
MergeAdds(data, qq, e) ==
    [balances |-> DictPut(data.balances, qq,
                          DictGet(data.balances, qq, 0) + e.bal),
     last_daily |-> data.last_daily]

MergeKeepsOld(data, qq, e) ==
    [balances |-> IF qq \in DOMAIN data.balances THEN data.balances
                  ELSE DictPut(data.balances, qq, e.bal),
     last_daily |-> data.last_daily]

\* a merge that never removes a claim date from the file
MergeNeverPops(data, qq, e) ==
    LET ds == _date_int_to_str(e.daily)
    IN  [balances |-> DictPut(data.balances, qq, e.bal),
         last_daily |-> IF ds # NoDate
                        THEN DictPut(data.last_daily, qq, ds)
                        ELSE data.last_daily]

MergeEntry(data, qq, e) ==
    LET ds == _date_int_to_str(e.daily)
    IN  [balances |-> DictPut(data.balances, qq, e.bal),
         last_daily |-> IF ds # NoDate
                        THEN DictPut(data.last_daily, qq, ds)
                        ELSE DictPop(data.last_daily, qq)]

\* the loop of _write_one_shard_worker over qq_entries
RECURSIVE MergeAll(_, _, _)
MergeAll(data, entries, todo) ==
    IF todo = {} THEN data
    ELSE LET qq == CHOOSE q \in todo : TRUE
         IN  MergeAll(MergeEntry(data, qq, entries[qq]), entries, todo \ {qq})

----------------------------------------------------------------------------
(* The cache.                                                              *)

\* _load_from_file: the entry built from the shard's data
LoadedEntry(data, qq, t, n) ==
    Entry(DictGet(data.balances, qq, 0),
          _date_str_to_int(DictGet(data.last_daily, qq, NoDate)),
          t, n)

\* "if qq not in self._cache: self._load_from_file(qq)" raises
LoadRaises(c, f, qq) == qq \notin DOMAIN c /\ ReadRaises(f[_shard_id(qq)])

\* the cache after "if qq not in self._cache: self._load_from_file(qq)"
EnsureLoaded(c, f, qq, t, n) ==
    IF qq \in DOMAIN c THEN c
    ELSE DictPut(c, qq,
                 LoadedEntry(_read_shard_file(f[_shard_id(qq)]), qq, t, n))

\* a _touch that leaves last_activity as it is
NoTouch(c, qq, t, n) == c

\* a touch that rebuilds the entry without its claim date
TouchDropsDate(c, qq, t, n) ==
    IF qq \in DOMAIN c
    THEN [c EXCEPT ![qq] = Entry(c[qq].bal, 0, t, n)]
    ELSE c

_touch(c, qq, t, n) ==
    IF qq \in DOMAIN c THEN [c EXCEPT ![qq].act = t, ![qq].ord = n] ELSE c

\* "if amount < 0: amount = 0" of set_currency
NoClampAmount(amount) == amount

ClampAmount(amount) == IF amount < 0 THEN 0 ELSE amount

\* new_balance of add_currency
NoClampBalance(balance, delta) == balance + delta

NewBalance(balance, delta) == Max(0, balance + delta)

----------------------------------------------------------------------------
(* History variables.                                                      *)

NoCall == [op |-> "none", id |-> 0, arg |-> 0, darg |-> NoDate, ok |-> TRUE,
           hit |-> FALSE, ev |-> FALSE, pre |-> 0, ret |-> 0, dret |-> NoDate]

\* hit: the entity was resident; ev: an eviction pass had removed it and it
\* had not been loaded since; pre: its balance once loaded
Call(op, id, arg, darg, ok, hit, pre, ret, dret) ==
    [op |-> op, id |-> id, arg |-> arg, darg |-> darg, ok |-> ok,
     hit |-> hit, ev |-> id \in evicted, pre |-> pre, ret |-> ret,
     dret |-> dret]

\* what the files hold for qq, read as a fresh instance reads it
Persisted(f, qq) ==
    LET e == LoadedEntry(_read_shard_file(f[_shard_id(qq)]), qq, 0, 0)
    IN  [bal |-> e.bal, date |-> _date_int_to_str(e.daily)]

\* what the store holds for qq: the cache when resident, else the file
Held(c, f, qq) ==
    IF qq \in DOMAIN c
    THEN [bal |-> c[qq].bal, date |-> _date_int_to_str(c[qq].daily)]
    ELSE Persisted(f, qq)

\* truth.bal[qq]: the result of the latest set_currency or add_currency on
\* qq; truth.date[qq]: the date of the latest set_last_daily_date on qq
NoTruth == [bal |-> EmptyMap, date |-> EmptyMap]

----------------------------------------------------------------------------
(* The ledger API.  Each call runs under the lock of the entity's shard,   *)
(* and the flush snapshot and the eviction pass hold every shard lock, so  *)
(* here a call is one step (SpecLock below models the locks themselves).   *)
(* The files are not covered by the locks on the workers' side: a load can *)
(* read a file a worker has opened for writing and not yet written.        *)

\* the call raises out of _load_from_file: nothing is changed
Raised(op, qq, arg, darg) ==
    /\ last' = Call(op, qq, arg, darg, FALSE, FALSE, 0, 0, NoDate)
    /\ UNCHANGED <<cache, truth, evicted>>

\* what get_currency returns, from cache c and files f
GetReturn(c, f, qq) == _touch(EnsureLoaded(c, f, qq, 0, 0), qq, 0, 0)[qq].bal

ApiFrame ==
    /\ calls < MaxCalls
    /\ calls' = calls + 1
    /\ UNCHANGED <<file, now, timer, tasks, flushed, lockvars>>

get_currency(qq) ==
    /\ IF LoadRaises(cache, file, qq) THEN Raised("get", qq, 0, NoDate)
       ELSE LET c1 == EnsureLoaded(cache, file, qq, now, calls + 1)
            IN  /\ cache' = _touch(c1, qq, now, calls + 1)
                /\ last' = Call("get", qq, 0, NoDate, TRUE, qq \in DOMAIN cache,
                                c1[qq].bal, GetReturn(cache, file, qq),
                                NoDate)
                /\ evicted' = evicted \ {qq}
                /\ UNCHANGED truth
    /\ ApiFrame

set_currency(qq, amount) ==
    /\ IF LoadRaises(cache, file, qq) THEN Raised("set", qq, amount, NoDate)
       ELSE LET c1 == EnsureLoaded(cache, file, qq, now, calls + 1)
                a == ClampAmount(amount)
            IN  /\ cache' = [c1 EXCEPT ![qq] = Entry(a, c1[qq].daily, now, calls + 1)]
                /\ last' = Call("set", qq, amount, NoDate, TRUE,
                                qq \in DOMAIN cache, c1[qq].bal, 0, NoDate)
                /\ evicted' = evicted \ {qq}
                /\ truth' = [truth EXCEPT !.bal = DictPut(@, qq, Max(0, amount))]
    /\ ApiFrame

add_currency(qq, delta) ==
    /\ IF LoadRaises(cache, file, qq) THEN Raised("add", qq, delta, NoDate)
       ELSE LET c1 == EnsureLoaded(cache, file, qq, now, calls + 1)
                new_balance == NewBalance(c1[qq].bal, delta)
            IN  /\ new_balance <= MaxBal
                /\ cache' = [c1 EXCEPT ![qq] =
                                Entry(new_balance, c1[qq].daily, now, calls + 1)]
                /\ last' = Call("add", qq, delta, NoDate, TRUE,
                                qq \in DOMAIN cache, c1[qq].bal, new_balance,
                                NoDate)
                /\ evicted' = evicted \ {qq}
                /\ truth' = [truth EXCEPT !.bal = DictPut(@, qq, new_balance)]
    /\ ApiFrame

get_last_daily_date(qq) ==
    /\ IF LoadRaises(cache, file, qq) THEN Raised("getdate", qq, 0, NoDate)
       ELSE LET c1 == EnsureLoaded(cache, file, qq, now, calls + 1)
                c2 == _touch(c1, qq, now, calls + 1)
            IN  /\ cache' = c2
                /\ last' = Call("getdate", qq, 0, NoDate, TRUE,
                                qq \in DOMAIN cache, c1[qq].bal, 0,
                                _date_int_to_str(c2[qq].daily))
                /\ evicted' = evicted \ {qq}
                /\ UNCHANGED truth
    /\ ApiFrame

set_last_daily_date(qq, date_str) ==
    /\ IF LoadRaises(cache, file, qq) THEN Raised("setdate", qq, 0, date_str)
       ELSE LET c1 == EnsureLoaded(cache, file, qq, now, calls + 1)
                di == _date_str_to_int(date_str)
            IN  /\ cache' = [c1 EXCEPT ![qq] = Entry(c1[qq].bal, di, now, calls + 1)]
                /\ last' = Call("setdate", qq, 0, date_str, TRUE,
                                qq \in DOMAIN cache, c1[qq].bal, 0, NoDate)
                /\ evicted' = evicted \ {qq}
                /\ truth' = [truth EXCEPT !.date = DictPut(@, qq, date_str)]
    /\ ApiFrame

----------------------------------------------------------------------------
(* The timer thread: sleep, _flush_to_file, _evict_inactive, for ever.     *)

\* a task of the executor: the shard, the round's start, the worker's position,
\* qq_entries, the worker's merged data, and (history) the file as the
\* worker read it and as it was when the worker opened it for writing
Task(sid, rnd, pc, entries, data) ==
    [sid |-> sid, rnd |-> rnd, pc |-> pc, entries |-> entries, data |-> data,
     got |-> MissingFile, old |-> MissingFile]

\* est of one shard of the snapshot
Est(c, s) ==
    Min(Cardinality(IdsOfShard(c, s)) * BYTES_PER_USER_EST * 2,
        MAX_BYTES_PER_FILE)

\* an admission loop that never lets a shard reach the budget
RECURSIVE AdmitStrict(_, _, _)
AdmitStrict(c, s, b) ==
    IF s >= NUM_SHARDS THEN {}
    ELSE IF IdsOfShard(c, s) = {} THEN AdmitStrict(c, s + 1, b)
    ELSE IF b + Est(c, s) >= MAX_BYTES_PER_ROUND THEN {}
    ELSE {s} \cup AdmitStrict(c, s + 1, b + Est(c, s))

\* an admission loop without the budget
AdmitAll(c, s, b) == {x \in Shards : x >= s /\ IdsOfShard(c, x) # {}}

\* the admission loop of _flush_to_file from shard s on, bytes_this_round = b
RECURSIVE Admit(_, _, _)
Admit(c, s, b) ==
    IF s >= NUM_SHARDS THEN {}
    ELSE IF IdsOfShard(c, s) = {} THEN Admit(c, s + 1, b)
    ELSE IF b >= MAX_BYTES_PER_ROUND THEN {}
    ELSE IF b + Est(c, s) > MAX_BYTES_PER_ROUND /\ b > 0 THEN {}
    ELSE {s} \cup Admit(c, s + 1, b + Est(c, s))

\* the shards of round_tasks
RoundShards(c) == Admit(c, 0, 0)

\* time.sleep(FLUSH_INTERVAL), begun at time t
\* history: failed, the shards whose tasks failed in the round before;
\* deferred, the shards with entries that the last round did not admit
Asleep(t, F, D) ==
    [pc |-> "sleep", t |-> t + FLUSH_INTERVAL, failed |-> F, deferred |-> D]

Sleeping(t) == Asleep(t, {}, {})

\* run() swallows the exception of _timer_work and sleeps again
TimerDies(t, F, D) == [Asleep(t, F, D) EXCEPT !.pc = "dead"]

AfterRaise(t, F, D) == Asleep(t, F, D)

\* the shards of by_shard
HeldShards(c) == {s \in Shards : IdsOfShard(c, s) # {}}

\* the timer thread waits for task t in as_completed
Awaited(t) == timer.pc = "wait" /\ t.rnd = timer.t

TimerFrame ==
    UNCHANGED <<file, now, truth, flushed, calls, lockvars>>

\* a round that moves the admitted entries out of the cache
FlushDropsAdmitted ==
    /\ timer.pc = "sleep"
    /\ now >= timer.t
    /\ tasks' = tasks \cup
          {Task(s, now, "queued", [qq \in IdsOfShard(cache, s) |-> cache[qq]],
                EmptyData) : s \in RoundShards(cache)}
    /\ timer' = [pc |-> "wait", t |-> now, failed |-> timer.failed,
                 deferred |-> HeldShards(cache) \ RoundShards(cache)]
    /\ last' = NoCall
    /\ cache' = [qq \in {x \in DOMAIN cache :
                            _shard_id(x) \notin RoundShards(cache)} |-> cache[qq]]
    /\ UNCHANGED evicted
    /\ TimerFrame

\* _flush_to_file up to the submission of the round's tasks: the snapshot
\* and the admission, under all the shard locks
_flush_to_file ==
    /\ timer.pc = "sleep"
    /\ now >= timer.t
    /\ tasks' = tasks \cup
          {Task(s, now, "queued", [qq \in IdsOfShard(cache, s) |-> cache[qq]],
                EmptyData) : s \in RoundShards(cache)}
    /\ timer' = [pc |-> "wait", t |-> now, failed |-> timer.failed,
                 deferred |-> HeldShards(cache) \ RoundShards(cache)]
    /\ last' = NoCall
    /\ UNCHANGED <<cache, evicted>>
    /\ TimerFrame

\* the test of the first pass of _evict_inactive
Expired(e, t) == (t - e.act) >= INACTIVE_TTL

\* the cache after the first pass
TTLPass(c, t) ==
    LET keep == {qq \in DOMAIN c : ~Expired(c[qq], t)}
    IN  [qq \in keep |-> c[qq]]

\* the key of sorted(): e1's last_activity is earlier than e2's
Earlier(e1, e2) == e1.act < e2.act \/ (e1.act = e2.act /\ e1.ord < e2.ord)

\* the ids of ordered[: len(self._cache) - MAX_CACHE_SIZE]
CapNewest(c) ==
    IF Cardinality(DOMAIN c) <= MAX_CACHE_SIZE THEN {}
    ELSE CHOOSE R \in SUBSET DOMAIN c :
            /\ Cardinality(R) = Cardinality(DOMAIN c) - MAX_CACHE_SIZE
            /\ \A r \in R : \A k \in DOMAIN c \ R : Earlier(c[k], c[r])

CapVictims(c) ==
    IF Cardinality(DOMAIN c) <= MAX_CACHE_SIZE THEN {}
    ELSE CHOOSE R \in SUBSET DOMAIN c :
            /\ Cardinality(R) = Cardinality(DOMAIN c) - MAX_CACHE_SIZE
            /\ \A r \in R : \A k \in DOMAIN c \ R : Earlier(c[r], c[k])

\* every future of the round completed without an exception: _flush_to_file
\* returns and _evict_inactive runs, under all the shard locks
_evict_inactive ==
    /\ timer.pc = "wait"
    /\ \A t \in tasks : Awaited(t) => t.pc = "done"
    /\ LET c1 == TTLPass(cache, now)
       IN  /\ cache' = [qq \in DOMAIN c1 \ CapVictims(c1) |-> c1[qq]]
           /\ evicted' = evicted \cup (DOMAIN cache \ DOMAIN c1)
    /\ tasks' = {t \in tasks : ~Awaited(t)}
    /\ timer' = Asleep(now, {}, timer.deferred)
    /\ last' = [NoCall EXCEPT !.op = "evict",
                              !.arg = Cardinality(CapVictims(TTLPass(cache, now)))]
    /\ TimerFrame

\* the futures the executor still holds when the timer thread stops waiting:
\* an exception out of as_completed cancels none of them
CancelPending(ts) == {t \in ts : t.pc \in {"merged", "opened"}}

Pending(ts) == {t \in ts : t.pc \notin {"done", "failed"}}

\* f.result() raises: _timer_work is abandoned, run() swallows the exception
\* and sleeps; the round's other tasks stay with the executor
FlushRaises ==
    /\ timer.pc = "wait"
    /\ \E t \in tasks : Awaited(t) /\ t.pc = "failed"
    /\ tasks' = Pending(tasks)
    /\ timer' = AfterRaise(now, {t.sid : t \in {x \in tasks :
                                       Awaited(x) /\ x.pc = "failed"}},
                          timer.deferred)
    /\ last' = [NoCall EXCEPT !.op = "raise"]
    /\ UNCHANGED <<cache, evicted>>
    /\ TimerFrame

----------------------------------------------------------------------------
(* _write_one_shard_worker, run by the executor's threads without a lock.  *)

Running == {t \in tasks : t.pc \in {"merged", "opened"}}

\* a task that ends while nobody waits for it is dropped
Ended(t, pc) ==
    IF Awaited(t) THEN (tasks \ {t}) \cup {[t EXCEPT !.pc = pc]} ELSE tasks \ {t}

WorkerFrame ==
    UNCHANGED <<cache, now, timer, truth, evicted, calls, lockvars>>

\* data = _read_shard_file(path), then the merge loop
WorkerRead(t) ==
    /\ t.pc = "queued"
    /\ Cardinality(Running) < FLUSH_WORKERS
    /\ IF ReadRaises(file[t.sid])
       THEN tasks' = Ended(t, "failed")
       ELSE tasks' = (tasks \ {t}) \cup
              {[t EXCEPT !.pc = "merged",
                         !.data = MergeAll(_read_shard_file(file[t.sid]),
                                           t.entries, DOMAIN t.entries),
                         !.got = file[t.sid]]}
    /\ last' = NoCall
    /\ UNCHANGED <<file, flushed>>
    /\ WorkerFrame

\* open(path, "w") of _write_shard_file truncates the file
WorkerOpen(t) ==
    /\ t.pc = "merged"
    /\ file' = [file EXCEPT ![t.sid] = MalformedFile]
    /\ tasks' = (tasks \ {t}) \cup
                 {[t EXCEPT !.pc = "opened", !.old = file[t.sid]]}
    /\ last' = NoCall
    /\ UNCHANGED flushed
    /\ WorkerFrame

\* open(path, "w") raises OSError
WorkerOpenFails(t) ==
    /\ t.pc = "merged"
    /\ tasks' = Ended(t, "failed")
    /\ last' = NoCall
    /\ UNCHANGED <<file, flushed>>
    /\ WorkerFrame

\* json.dump and the close of the file
WorkerDump(t) ==
    /\ t.pc = "opened"
    /\ file' = [file EXCEPT ![t.sid] =
                    FileOf("ok", t.data.balances, t.data.last_daily)]
    /\ flushed' = [qq \in DOMAIN flushed \cup DOMAIN t.entries |->
                     IF qq \in DOMAIN t.entries THEN t.entries[qq].bal
                     ELSE flushed[qq]]
    /\ tasks' = Ended(t, "done")
    /\ last' = [NoCall EXCEPT !.op = "dump", !.arg = t.sid,
                              !.hit = Awaited(t)]
    /\ WorkerFrame

Tick ==
    /\ now < MaxTime
    /\ now' = now + 1
    /\ last' = NoCall
    /\ UNCHANGED <<cache, file, timer, tasks, truth, flushed, evicted, calls,
                   lockvars>>

----------------------------------------------------------------------------
(* Spec: the store with balances only.  Shard 0 is the empty file that     *)
(* CurrencyStore.__init__ writes at the first start; shard 1 either does   *)
(* not exist yet or holds what an earlier run flushed.                     *)

Amounts == {-1, 1}
Deltas == {-2, 1}

NoThread == "none"

\* the balances the files hold
FlushedOf(f, ids) ==
    LET have == {qq \in ids : qq \in DOMAIN f[_shard_id(qq)].balances}
    IN  [qq \in have |-> f[_shard_id(qq)].balances[qq]]

InitWith(f, ids) ==
    /\ cache = EmptyMap
    /\ file = f
    /\ now = 0
    /\ timer = Sleeping(0)
    /\ tasks = {}
    /\ locks = [s \in Shards |-> NoThread]
    /\ thr = EmptyMap
    /\ truth = NoTruth
    /\ flushed = FlushedOf(f, ids)
    /\ evicted = {}
    /\ seq = EmptyMap
    /\ calls = 0
    /\ last = NoCall

FirstStart == [s \in Shards |-> IF s = 0 THEN EmptyShardFile ELSE MissingFile]

Restart == [FirstStart EXCEPT ![1] = FileOf("ok", (1 :> 1), EmptyMap)]

Init == \E f \in {FirstStart, Restart} : InitWith(f, Ids)

Background ==
    \/ _flush_to_file
    \/ _evict_inactive
    \/ FlushRaises
    \/ \E t \in tasks : WorkerRead(t)
    \/ \E t \in tasks : WorkerOpen(t)
    \/ \E t \in tasks : WorkerOpenFails(t)
    \/ \E t \in tasks : WorkerDump(t)
    \/ Tick

Next ==
    \/ \E qq \in Ids : get_currency(qq)
    \/ \E qq \in Ids : \E amount \in Amounts : set_currency(qq, amount)
    \/ \E qq \in Ids : \E delta \in Deltas : add_currency(qq, delta)
    \/ Background

Spec == Init /\ [][Next]_vars

----------------------------------------------------------------------------
(* Claims checked under Spec.                                              *)

\* C1: after any sequence of set_currency and add_currency calls, every
\* balance held in the cache and every balance returned by get_currency or
\* add_currency is >= 0.
C1_BalanceNeverNegative ==
    /\ \A qq \in DOMAIN cache : cache[qq].bal >= 0
    /\ (last.op \in {"get", "add"} /\ last.ok) => last.ret >= 0

\* a negative amount has been set over a positive balance
C1_Witness ==
    /\ last.op = "set" /\ last.ok
    /\ last.arg < 0 /\ last.pre > 0
    /\ cache[last.id].bal = 0

\* what get_last_daily_date returns, from cache c and files f
GetDateReturn(c, f, qq) ==
    _date_int_to_str(_touch(EnsureLoaded(c, f, qq, 0, 0), qq, 0, 0)[qq].daily)

\* C2: no acknowledged write is lost while the process runs: get_currency
\* returns the result of the latest set_currency or add_currency on the
\* entity, and get_last_daily_date the date of the latest
\* set_last_daily_date, whatever flush rounds and eviction passes happen.
C2_NoAcknowledgedWriteLost ==
    /\ \A qq \in DOMAIN truth.bal :
          GetReturn(cache, file, qq) = truth.bal[qq]
    /\ \A qq \in DOMAIN truth.date :
          GetDateReturn(cache, file, qq) = truth.date[qq]

\* C3: add_currency(qq, delta) returns max(0, balance + delta), balance
\* being the entity's balance before the call, and stores it: a get_currency
\* that follows at once returns the same number.
C3_AddReturnsClampedSum ==
    (last.op = "add" /\ last.ok) =>
        /\ last.ret = (IF last.pre + last.arg < 0 THEN 0
                       ELSE last.pre + last.arg)
        /\ last.id \in DOMAIN cache
        /\ cache[last.id].bal = last.ret
        /\ GetReturn(cache, file, last.id) = last.ret

\* the boundary case: the sum is negative and 0 is returned
C3_Witness ==
    /\ last.op = "add" /\ last.ok
    /\ last.pre > 0 /\ last.pre + last.arg < 0
    /\ last.ret = 0

\* C4: set_currency(qq, amount) replaces the balance by max(0, amount),
\* whatever the balance was and whether or not the entity was resident: a
\* get_currency that follows at once returns max(0, amount).
C4_SetReplacesByClampedAmount ==
    (last.op = "set" /\ last.ok) =>
        /\ last.id \in DOMAIN cache
        /\ cache[last.id].bal = (IF last.arg < 0 THEN 0 ELSE last.arg)
        /\ GetReturn(cache, file, last.id)
             = (IF last.arg < 0 THEN 0 ELSE last.arg)

\* a negative amount set on an entity that was not resident and had a
\* persisted balance
C4_Witness ==
    /\ last.op = "set" /\ last.ok
    /\ ~last.hit /\ last.pre > 0 /\ last.arg < 0
    /\ GetReturn(cache, file, last.id) = 0

\* C7: when a flush of a shard completes, the file holds for every entity of
\* the flushed snapshot the balance the snapshot held, and a fresh instance
\* (an empty cache over the same files) returns it from get_currency.
C7_FlushRoundTrip ==
    [][\A t \in tasks : WorkerDump(t) =>
          \A qq \in DOMAIN t.entries :
              /\ file'[t.sid].kind = "ok"
              /\ qq \in DOMAIN file'[t.sid].balances
              /\ file'[t.sid].balances[qq] = t.entries[qq].bal
              /\ GetReturn(EmptyMap, file', qq) = t.entries[qq].bal]_vars

\* a shard has been flushed over a file that held another balance for an
\* entity of the snapshot
C7_Witness ==
    \E t \in tasks :
        /\ t.pc = "done"
        /\ \E qq \in DOMAIN t.entries :
              /\ t.entries[qq].bal > 0
              /\ file[t.sid].kind = "ok"
              /\ GetReturn(EmptyMap, file, qq) = t.entries[qq].bal
              /\ \E q2 \in DOMAIN file[t.sid].balances : q2 \notin DOMAIN t.entries

\* C10: after an eviction pass no entry idle for INACTIVE_TTL or more is
\* left in the cache, and the next get_currency on an entity the pass
\* removed loads it from its file and returns the last flushed balance.
C10_EvictedReloadsLastFlushed ==
    /\ last.op = "evict" =>
          \A qq \in DOMAIN cache : now - cache[qq].act < INACTIVE_TTL
    /\ (last.op = "get" /\ last.ok /\ last.ev) =>
          /\ ~last.hit
          /\ last.ret = DictGet(flushed, last.id, 0)

----------------------------------------------------------------------------
(* SpecDate: one entity (Scenario A's 1001, here 1) with its balance and   *)
(* its claim date, from a first start.                                     *)

Date2024 == <<"2", "0", "2", "4", "-", "0", "1", "-", "0", "1">>
Date0999 == <<"0", "9", "9", "9", "-", "1", "2", "-", "3", "1">>

\* valid calendar dates, as date.isoformat() writes them
DatesA == {Date2024, Date0999}
DateIds == {1}

InitDate == InitWith(FirstStart, DateIds)

NextDate ==
    \/ \E qq \in DateIds : get_currency(qq)
    \/ \E qq \in DateIds : add_currency(qq, 1)
    \/ \E qq \in DateIds : get_last_daily_date(qq)
    \/ \E qq \in DateIds : \E d \in DatesA : set_last_daily_date(qq, d)
    \/ Background

SpecDate == InitDate /\ [][NextDate]_vars

\* C8: for a valid date d, set_last_daily_date(qq, d) followed by
\* get_last_daily_date(qq) returns d; and after a flush, a fresh instance
\* over the same files returns the balance and the claim date unchanged.
C8_DateRoundTrip ==
    [][/\ \A qq \in DateIds : \A d \in DatesA :
            set_last_daily_date(qq, d) => GetDateReturn(cache', file', qq) = d
       /\ \A t \in tasks : WorkerDump(t) =>
            \A qq \in DOMAIN t.entries :
                /\ GetReturn(EmptyMap, file', qq) = t.entries[qq].bal
                /\ GetDateReturn(EmptyMap, file', qq)
                     = _date_int_to_str(t.entries[qq].daily)]_vars

----------------------------------------------------------------------------
(* SpecLoad: the first accesses to entities of a shard whose file is       *)
(* missing, is not JSON, is JSON of another shape, or is a shard file.     *)

LoadIds == {1, 5}

LoadFiles ==
    {[FirstStart EXCEPT ![1] = f] :
        f \in {MissingFile, MalformedFile, NotObjFile, EmptyShardFile,
               FileOf("ok", (1 :> 1), (1 :> Date2024))}}

InitLoad == \E f \in LoadFiles : InitWith(f, LoadIds)

NextLoad ==
    \/ \E qq \in LoadIds : get_currency(qq)
    \/ \E qq \in LoadIds : \E amount \in Amounts : set_currency(qq, amount)
    \/ \E qq \in LoadIds : \E delta \in Deltas : add_currency(qq, delta)
    \/ \E qq \in LoadIds : get_last_daily_date(qq)
    \/ \E qq \in LoadIds : set_last_daily_date(qq, Date2024)

SpecLoad == InitLoad /\ [][NextLoad]_vars

\* the shard file of qq is missing or malformed, or does not hold qq
AbsentFromFile(f, qq) ==
    \/ f[_shard_id(qq)].kind # "ok"
    \/ qq \notin DOMAIN f[_shard_id(qq)].balances

\* C9: the first access to an entity that is absent from its shard file, or
\* whose shard file is missing or malformed, never fails and creates a cache
\* entry with balance 0 and no claim date.
C9_FirstAccessNeverFails ==
    (last.op # "none" /\ ~last.hit /\ AbsentFromFile(file, last.id)) =>
        /\ last.ok
        /\ last.pre = 0
        /\ last.id \in DOMAIN cache
        /\ last.op \in {"get", "getdate"} =>
              cache[last.id].bal = 0 /\ cache[last.id].daily = 0

----------------------------------------------------------------------------
(* SpecLock: two callers of get_currency, set_currency and add_currency,   *)
(* statement by statement, with the shard locks.  Entity 42 (shard 2) has  *)
(* a balance in its file; entity 7 (shard 3) has none.  seq is the ledger  *)
(* of a sequential store, advanced at each call's linearization point.     *)

Callers == {"a", "b"}
LockIds == {42, 7}
InitBals == {0, 10, 20, 30}
LockAmounts == {-5, 5}
LockDeltas == {50, -20}

\* loc, d: the call's local variables; ret: what it returns; exp: what the
\* sequential ledger returns; ov: the call overlapped another on the same qq
IdleCaller ==
    [pc |-> "idle", op |-> "none", qq |-> 0, arg |-> 0, loc |-> 0, d |-> 0,
     ok |-> TRUE, ret |-> 0, exp |-> 0, ov |-> FALSE]

InCall(c) == thr[c].pc \notin {"idle", "done"}

\* the shard lock index of self._lock_for(qq)
_lock_for(qq) == _shard_id(qq)

\* lock.acquire() of an RLock returns
AlwaysAcquire(l, s, c) == TRUE

CanAcquire(l, s, c) == l[s] = NoThread \/ l[s] = c

LockFrame ==
    UNCHANGED <<file, now, timer, tasks, truth, flushed, evicted, last>>

\* caller c enters a call; loc is what it computes before taking the lock
Invoke(c, op, qq, arg, loc) ==
    /\ ~InCall(c)
    /\ calls < MaxCalls
    /\ calls' = calls + 1
    /\ thr' = [o \in Callers |->
                 IF o = c
                 THEN [IdleCaller EXCEPT !.pc = "acquire", !.op = op,
                                         !.qq = qq, !.arg = arg, !.loc = loc,
                                         !.ov = \E x \in Callers \ {c} :
                                                   InCall(x) /\ thr[x].qq = qq]
                 ELSE IF InCall(o) /\ thr[o].qq = qq
                      THEN [thr[o] EXCEPT !.ov = TRUE]
                      ELSE thr[o]]
    /\ UNCHANGED <<cache, locks, seq>>
    /\ LockFrame

CallGet(c, qq) == Invoke(c, "get", qq, 0, 0)

\* "if amount < 0: amount = 0" precedes the lock
CallSet(c, qq, amount) == Invoke(c, "set", qq, amount, ClampAmount(amount))

CallAdd(c, qq, delta) == Invoke(c, "add", qq, delta, 0)

\* with self._lock_for(qq):
Acquire(c) ==
    /\ thr[c].pc = "acquire"
    /\ CanAcquire(locks, _lock_for(thr[c].qq), c)
    /\ locks' = [locks EXCEPT ![_lock_for(thr[c].qq)] = c]
    /\ thr' = [thr EXCEPT ![c].pc = "load"]
    /\ UNCHANGED <<cache, seq, calls>>
    /\ LockFrame

\* if qq not in self._cache: self._load_from_file(qq)
Load(c) ==
    /\ thr[c].pc = "load"
    /\ IF LoadRaises(cache, file, thr[c].qq)
       THEN /\ thr' = [thr EXCEPT ![c].pc = "release", ![c].ok = FALSE]
            /\ UNCHANGED cache
       ELSE /\ cache' = EnsureLoaded(cache, file, thr[c].qq, now, calls)
            /\ thr' = [thr EXCEPT ![c].pc =
                          IF thr[c].op = "get" THEN "touch" ELSE "read"]
    /\ UNCHANGED <<locks, seq, calls>>
    /\ LockFrame

\* self._touch(qq) of get_currency
Touch(c) ==
    /\ thr[c].pc = "touch"
    /\ cache' = _touch(cache, thr[c].qq, now, calls)
    /\ thr' = [thr EXCEPT ![c].pc = "read"]
    /\ UNCHANGED <<locks, seq, calls>>
    /\ LockFrame

\* the read of self._cache[qq]: the value get_currency returns, or the
\* locals of set_currency (d) and add_currency (balance, d)
Read(c) ==
    /\ thr[c].pc = "read"
    /\ LET t == thr[c]
           e == cache[t.qq]
       IN  thr' = [thr EXCEPT ![c] =
                CASE t.op = "get" ->
                        [t EXCEPT !.pc = "release", !.ret = e.bal,
                                  !.exp = seq[t.qq]]
                  [] t.op = "set" ->
                        [t EXCEPT !.pc = "write", !.d = e.daily]
                  [] OTHER ->
                        [t EXCEPT !.pc = "write", !.loc = e.bal,
                                  !.d = e.daily]]
    /\ UNCHANGED <<cache, locks, seq, calls>>
    /\ LockFrame

\* self._cache[qq] = (amount or new_balance, d, time.time())
Write(c) ==
    /\ thr[c].pc = "write"
    /\ LET t == thr[c]
           v == IF t.op = "set" THEN t.loc ELSE NewBalance(t.loc, t.arg)
           sv == IF t.op = "set" THEN Max(0, t.arg)
                 ELSE Max(0, seq[t.qq] + t.arg)
       IN  /\ cache' = DictPut(cache, t.qq, Entry(v, t.d, now, calls))
           /\ seq' = [seq EXCEPT ![t.qq] = sv]
           /\ thr' = [thr EXCEPT ![c].pc = "release",
                                 ![c].ret = IF t.op = "add" THEN v ELSE 0,
                                 ![c].exp = IF t.op = "add" THEN sv ELSE 0]
    /\ UNCHANGED <<locks, calls>>
    /\ LockFrame

\* the end of the with block, and the return
Release(c) ==
    /\ thr[c].pc = "release"
    /\ locks' = [locks EXCEPT ![_lock_for(thr[c].qq)] = NoThread]
    /\ thr' = [thr EXCEPT ![c].pc = "done"]
    /\ UNCHANGED <<cache, seq, calls>>
    /\ LockFrame

InitLock ==
    \E i \in InitBals :
        /\ cache = EmptyMap
        /\ file = [FirstStart EXCEPT ![2] = FileOf("ok", (42 :> i), EmptyMap)]
        /\ now = 0
        /\ timer = Sleeping(0)
        /\ tasks = {}
        /\ locks = [s \in Shards |-> NoThread]
        /\ thr = [c \in Callers |-> IdleCaller]
        /\ truth = NoTruth
        /\ flushed = (42 :> i)
        /\ evicted = {}
        /\ seq = [qq \in LockIds |-> IF qq = 42 THEN i ELSE 0]
        /\ calls = 0
        /\ last = NoCall

NextLock ==
    \/ \E c \in Callers : \E qq \in LockIds : CallGet(c, qq)
    \/ \E c \in Callers : \E qq \in LockIds : \E amount \in LockAmounts :
          CallSet(c, qq, amount)
    \/ \E c \in Callers : \E qq \in LockIds : \E delta \in LockDeltas :
          CallAdd(c, qq, delta)
    \/ \E c \in Callers : Acquire(c)
    \/ \E c \in Callers : Load(c)
    \/ \E c \in Callers : Touch(c)
    \/ \E c \in Callers : Read(c)
    \/ \E c \in Callers : Write(c)
    \/ \E c \in Callers : Release(c)

SpecLock == InitLock /\ [][NextLock]_vars

\* Scenario B has run: the store's first two calls were add_currency(42, 50)
\* by caller a and add_currency(42, -20) by caller b, and both have returned
ScenarioB ==
    /\ calls = 2
    /\ thr["a"].pc = "done" /\ thr["a"].op = "add"
    /\ thr["a"].qq = 42 /\ thr["a"].arg = 50
    /\ thr["b"].pc = "done" /\ thr["b"].op = "add"
    /\ thr["b"].qq = 42 /\ thr["b"].arg = -20

\* the balance entity 42 had before the two calls
Initial42 == Persisted(file, 42).bal

\* C5 as stated: for any initial balance of entity 42, concurrent
\* add_currency(42, 50) and add_currency(42, -20) leave initial + 30 under
\* every interleaving of the two calls.
C5_ConcurrentAddsAnyInitial ==
    ScenarioB => Held(cache, file, 42).bal = Initial42 + 30

\* C5 amended: the two calls take effect one after the other, each clamped
\* at 0: the final balance is initial + 30 when +50 takes effect first or
\* the initial balance is at least 20, and it is 50 when -20 takes effect
\* first on an initial balance below 20.
C5_ConcurrentAddsClamped ==
    ScenarioB =>
        LET final == Held(cache, file, 42).bal
        IN  /\ \/ /\ thr["a"].ret = Initial42 + 50
                  /\ thr["b"].ret = Initial42 + 30
                  /\ final = Initial42 + 30
               \/ /\ thr["b"].ret = Max(0, Initial42 - 20)
                  /\ thr["a"].ret = thr["b"].ret + 50
                  /\ final = thr["a"].ret
            /\ Initial42 >= 20 => final = Initial42 + 30
            /\ (Initial42 < 20 /\ thr["b"].ret = 0) => final = 50

\* the two calls overlapped, -20 took effect first on a balance of exactly
\* 20, and the final balance is 50 = 20 + 30
C5_Witness ==
    /\ ScenarioB
    /\ thr["a"].ov /\ thr["b"].ov
    /\ Initial42 = 20
    /\ thr["b"].ret = 0
    /\ Held(cache, file, 42).bal = 50

\* the callers between the acquisition and the release of a shard lock
Critical(c) == thr[c].pc \in {"load", "touch", "read", "write", "release"}

\* C6: concurrent API operations on one entity are linearizable: no two
\* callers are inside the lock of one shard at once, every call returns what
\* the sequential ledger returns at its linearization point (the write of
\* set_currency and add_currency, the read of get_currency), and between
\* calls the store holds the sequential ledger's balance: no update is lost.
C6_Linearizable ==
    /\ \A c1 \in Callers : \A c2 \in Callers \ {c1} :
          (Critical(c1) /\ Critical(c2)) =>
              _lock_for(thr[c1].qq) # _lock_for(thr[c2].qq)
    /\ \A c \in Callers :
          (thr[c].pc \in {"release", "done"} /\ thr[c].ok) =>
              thr[c].ret = thr[c].exp
    /\ \A qq \in LockIds :
          (\A c \in Callers : ~(Critical(c) /\ thr[c].qq = qq)) =>
              Held(cache, file, qq).bal = seq[qq]

\* an add_currency and another mutation of the same entity overlapped, both
\* have returned, and a get_currency has returned the balance they left
C6_Witness ==
    \E c \in Callers : \E o \in Callers \ {c} :
        /\ thr[c].pc = "done" /\ thr[c].op = "get" /\ thr[c].qq = 42
        /\ thr[o].pc = "done" /\ thr[o].op = "add" /\ thr[o].qq = 42
        /\ thr[o].ov
        /\ thr[c].ret = seq[42]
        /\ thr[c].ret # Initial42

----------------------------------------------------------------------------
(* Claims on the eviction pass and on the flush rounds.                    *)

\* C11: after every eviction pass the cache holds at most MAX_CACHE_SIZE
\* entries, and the entries the cap pass removes are the least recently
\* active: each has a last_activity no later than that of every entry that
\* survives, and the pass removes no more than brings the cache to the cap.
C11_CapPassRemovesLeastRecent ==
    [][_evict_inactive =>
          LET c1 == TTLPass(cache, now)
              removed == DOMAIN c1 \ DOMAIN cache'
          IN  /\ Cardinality(DOMAIN cache') <= MAX_CACHE_SIZE
              /\ \A r \in removed : \A k \in DOMAIN cache' :
                    \/ c1[r].act < c1[k].act
                    \/ c1[r].act = c1[k].act /\ c1[r].ord <= c1[k].ord
              /\ removed # {} =>
                    Cardinality(DOMAIN cache') = MAX_CACHE_SIZE]_vars

\* an eviction pass whose cap pass has removed an entry and left another
C11_Witness ==
    /\ last.op = "evict"
    /\ last.arg > 0
    /\ Cardinality(DOMAIN cache) = MAX_CACHE_SIZE

----------------------------------------------------------------------------
(* SpecRace: entities 1 and 5 of shard 1 and entity 2 of shard 2, from a   *)
(* first start.  When a task of a round fails, the round's other tasks     *)
(* stay with the executor and can still run in the next round.             *)

RaceIds == {1, 5, 2}

InitRace == InitWith(FirstStart, RaceIds)

NextRace ==
    \/ \E qq \in RaceIds : set_currency(qq, 1)
    \/ Background

SpecRace == InitRace /\ [][NextRace]_vars

\* C12: a flush of a shard is a merge: every entity that the shard's file
\* holds when the worker writes it, and that is not among the entries
\* supplied for the flush, has the same balance and the same claim date in
\* the file after the write.
C12_FlushKeepsOtherEntries ==
    [][\A t \in tasks : WorkerDump(t) =>
          LET old == _read_shard_file(t.old)
              new == _read_shard_file(file'[t.sid])
          IN  \A qq \in DOMAIN old.balances \ DOMAIN t.entries :
                  /\ qq \in DOMAIN new.balances
                  /\ new.balances[qq] = old.balances[qq]
                  /\ DictGet(new.last_daily, qq, NoDate)
                       = DictGet(old.last_daily, qq, NoDate)]_vars

\* the file f holds, for every entity of the entries, the entry's balance
\* and its claim date (none when the entry has none)
FileAgrees(f, entries) ==
    /\ f.kind = "ok"
    /\ \A qq \in DOMAIN entries :
          /\ qq \in DOMAIN f.balances
          /\ f.balances[qq] = entries[qq].bal
          /\ DictGet(f.last_daily, qq, NoDate)
               = _date_int_to_str(entries[qq].daily)

\* C13: flushing a shard whose entries are already flushed and unmodified
\* (the file the worker reads holds every supplied entry's balance and claim
\* date) leaves the file's balance map and claim-date map as the worker
\* read them.
C13_ReflushIsIdempotent ==
    [][\A t \in tasks : (WorkerDump(t) /\ FileAgrees(t.got, t.entries)) =>
          _read_shard_file(file'[t.sid]) = _read_shard_file(t.got)]_vars

\* a shard holding an entity with a balance and a claim date has been
\* flushed again over a file that already held both
C13_Witness ==
    \E t \in tasks :
        /\ t.pc = "done"
        /\ FileAgrees(t.got, t.entries)
        /\ \E qq \in DOMAIN t.entries :
              t.entries[qq].bal > 0 /\ t.entries[qq].daily > 0
        /\ _read_shard_file(file[t.sid]) = _read_shard_file(t.got)


----------------------------------------------------------------------------
(* The byte budget of a round.  SpecRound starts after four set_currency   *)
(* calls at tick 0, one entity per shard: every shard is dirty and the     *)
(* budget of a round holds two of them.                                    *)

RoundIds == {4, 1, 2, 3}

\* the cache after set_currency(4, 1), (1, 1), (2, 1), (3, 1) at tick 0
DirtyCache == [qq \in RoundIds |-> Entry(1, 0, 0, _shard_id(qq) - 3)]

InitRound ==
    /\ cache = DirtyCache
    /\ file = FirstStart
    /\ now = 0
    /\ timer = Sleeping(0)
    /\ tasks = {}
    /\ locks = [s \in Shards |-> NoThread]
    /\ thr = EmptyMap
    /\ truth = [bal |-> [qq \in RoundIds |-> 1], date |-> EmptyMap]
    /\ flushed = EmptyMap
    /\ evicted = {}
    /\ seq = EmptyMap
    /\ calls = 0
    /\ last = NoCall

\* the entities read again: those of the two shards a round admits first
\* and one of a shard it defers
ReadIds == {4, 1, 3}

NextRound ==
    \/ \E qq \in ReadIds : get_currency(qq)
    \/ Background

SpecRound == InitRound /\ [][NextRound]_vars

\* the shards the first round admits, and those it defers
FirstAdmitted == RoundShards(DirtyCache)

FirstDeferred == Shards \ FirstAdmitted

Changed(f) == {s \in Shards : f[s] # FirstStart[s]}

\* C14: with four dirty shards and a budget for two, the round that ends
\* with all four still cached has changed exactly the files of the two it
\* admitted, and each of the other two stays cached until its file has
\* changed, so that a later round changes it (no API call in between).
C14_TwoThenTheOtherTwo ==
    [][(calls' = 0) =>
          /\ (_evict_inactive /\ DOMAIN cache = RoundIds)
                => Changed(file) = FirstAdmitted
          /\ \A s \in FirstDeferred :
                s \in Changed(file') \/ IdsOfShard(cache', s) # {}]_vars

\* C15: a shard that the round before did not admit for want of budget and
\* that still holds cached entries is admitted by this round, ahead of the
\* lower-indexed shards that would fill the budget again.
C15_DeferredShardGoesFirst ==
    [][_flush_to_file =>
          \A s \in timer.deferred :
              IdsOfShard(cache, s) # {} => s \in RoundShards(cache)]_vars

\* the first shard of sorted(by_shard.keys())
FirstShard(c) == CHOOSE s \in HeldShards(c) : \A x \in HeldShards(c) : s <= x

\* C16: a round that finds any entry in the cache submits the first shard
\* it considers, with all of that shard's cached entries, also when that
\* shard's estimate alone reaches the budget of the round.
C16_FirstShardAdmitted ==
    [][(_flush_to_file /\ DOMAIN cache # {}) =>
          \E t \in tasks' :
              /\ t.sid = FirstShard(cache)
              /\ t.rnd = now
              /\ t.pc = "queued"
              /\ t.entries = [qq \in IdsOfShard(cache, t.sid) |-> cache[qq]]]_vars

\* a round has admitted a first shard whose estimate reaches the budget,
\* alone, and its worker has written the file
C16_Witness ==
    \E t \in tasks :
        /\ Awaited(t)
        /\ \A x \in tasks : Awaited(x) => x = t
        /\ timer.deferred # {}
        /\ Est(t.entries, t.sid) >= MAX_BYTES_PER_ROUND
        /\ t.pc = "done"
        /\ FileAgrees(file[t.sid], t.entries)

\* bytes_this_round after the shards of S
RECURSIVE SumEst(_, _)
SumEst(c, S) ==
    IF S = {} THEN 0
    ELSE LET s == CHOOSE x \in S : TRUE
         IN  Est(c, s) + SumEst(c, S \ {s})

\* C17: the shards a round submits are a prefix of the ascending list of
\* the shards with cached entries, and their estimates sum to at most the
\* budget of the round unless the round submits the first shard alone.
C17_AdmittedPrefixWithinBudget ==
    [][_flush_to_file =>
          LET A == {t.sid : t \in tasks' \ tasks}
              H == HeldShards(cache)
          IN  /\ A \subseteq H
              /\ \A s \in A : \A x \in H : x < s => x \in A
              /\ \/ SumEst(cache, A) <= MAX_BYTES_PER_ROUND
                 \/ A = {FirstShard(cache)}]_vars

\* a round has found entries in all four shards and submitted the first
\* two, which fill the budget
C17_Witness ==
    /\ timer.pc = "wait"
    /\ {t.sid : t \in {x \in tasks : Awaited(x)}} = {0, 1}
    /\ timer.deferred = {2, 3}
    /\ HeldShards(cache) = Shards
    /\ SumEst(cache, {0, 1}) = MAX_BYTES_PER_ROUND

\* the executor's threads keep running whatever the timer thread does
WorkerStep ==
    \E t \in tasks :
        WorkerRead(t) \/ WorkerOpen(t) \/ WorkerOpenFails(t) \/ WorkerDump(t)

\* the timer thread and the executor alone, from the four dirty shards:
\* time passes, the timer thread wakes when its sleep is over, and a worker
\* that can take a step takes one
SpecFlushFair ==
    /\ InitRound
    /\ [][Background]_vars
    /\ WF_vars(WorkerStep)
    /\ WF_vars(Tick)
    /\ WF_vars(_flush_to_file)

\* a task of a round in which another task has failed
Sibling(t) ==
    \/ ~Awaited(t)
    \/ \E x \in tasks : Awaited(x) /\ x.pc = "failed" /\ x # t

\* FlushRaises cancels no unfinished task of its round
RaiseKeepsTasks ==
    FlushRaises =>
        \A t \in tasks :
            (Awaited(t) /\ t.pc \notin {"done", "failed"}) => t \in tasks'

\* the write of a sibling leaves its file holding all of its entries
SiblingWritesAll ==
    \A t \in tasks :
        (WorkerDump(t) /\ Sibling(t)) => FileAgrees(file'[t.sid], t.entries)

\* C18: when the write of one admitted shard fails, the tasks of the other
\* shards admitted in that round are not cancelled, each of them that
\* writes leaves its file holding all of its entries, and each of them
\* comes to its end.
C18_SiblingsStillWritten ==
    /\ [][RaiseKeepsTasks /\ SiblingWritesAll]_vars
    /\ (\E t \in tasks : ~Awaited(t)) ~> (\A t \in tasks : Awaited(t))

\* the write of shard 1 or 0 has failed, the timer thread sleeps again,
\* and the worker of the other shard of that round has then written its file
C18_Witness ==
    /\ timer.pc = "sleep"
    /\ timer.failed # {}
    /\ last.op = "dump"
    /\ ~last.hit
    /\ last.arg \notin timer.failed
    /\ file[last.arg].kind = "ok"
    /\ \E qq \in RoundIds : _shard_id(qq) = last.arg /\ qq \in DOMAIN file[last.arg].balances

\* the failure of a round changes no cached entry and sends the timer
\* thread back to sleep for one interval
RaiseKeepsCache ==
    FlushRaises =>
        /\ cache' = cache
        /\ timer'.pc = "sleep"
        /\ timer'.t = now + FLUSH_INTERVAL
        /\ timer'.failed # {}
        /\ \A s \in timer'.failed : IdsOfShard(cache', s) # {}

\* the next round finds the failed shard in by_shard, entries unchanged
FailedShardIsCandidate ==
    (_flush_to_file /\ timer.failed # {}) =>
        \A s \in timer.failed : s \in HeldShards(cache)

\* C19: a round in which the write of a shard fails leaves the cached
\* entries as they were and the timer thread asleep until the next interval;
\* the next round then takes place, and the failed shard is among the shards
\* it considers.
C19_SchedulerSurvivesFailure ==
    /\ [][RaiseKeepsCache /\ FailedShardIsCandidate]_vars
    /\ (timer.pc = "sleep" /\ timer.failed # {} /\ timer.t <= MaxTime)
          ~> (timer.pc = "wait" /\ timer.failed # {})

\* the round after a failed one has written the shard that had failed
C19_Witness ==
    /\ timer.pc = "wait"
    /\ \E t \in tasks :
          /\ Awaited(t)
          /\ t.sid \in timer.failed
          /\ t.pc = "done"
          /\ FileAgrees(file[t.sid], t.entries)

\* C20: every flush round is followed by an eviction pass before the timer
\* thread sleeps again, also when the write of a shard has failed in it.
C20_EvictionAfterEveryRound ==
    [][(timer.pc = "wait" /\ timer'.pc = "sleep") => _evict_inactive]_vars

----------------------------------------------------------------------------
(* Threads and shards.                                                      *)

\* an API call on entity qq runs, under the lock of qq's shard
ApiStepOn(qq) == calls' = calls + 1 /\ last'.id = qq

\* the workers that have opened the file of shard s for writing and have
\* not yet written and closed it
Writing(s) == {t \in tasks : t.sid = s /\ t.pc = "opened"}

\* C21: while a worker is writing the file of shard S, no API call loads
\* from that file or changes a cached entry of shard S, and no second
\* worker is writing the same file.
C21_ShardAccessExclusive ==
    [][\A qq \in Ids :
          /\ ApiStepOn(qq) => Writing(_shard_id(qq)) = {}
          /\ Cardinality(Writing(_shard_id(qq))) <= 1]_vars

\* the ledger API
ApiOps == {"get", "set", "add", "getdate", "setdate"}

\* C22: no call of the ledger API raises an error because of the shard
\* files, whatever state they are in; a call on a cached entity answers
\* from the cache.
C22_NoPersistenceErrorToCaller ==
    last.op \in ApiOps =>
        /\ last.ok
        /\ (last.hit /\ last.op = "get") => last.ret = last.pre

----------------------------------------------------------------------------
(* Entity ids.  The API takes any integer: "qq = int(qq)" is all it does   *)
(* with the id before it takes the shard lock.                             *)

\* ids that are zero or negative
InvalidIds == {0, -1}

InitIds == InitWith(FirstStart, InvalidIds)

NextIds ==
    \/ \E qq \in InvalidIds : get_currency(qq)
    \/ \E qq \in InvalidIds : set_currency(qq, 1)
    \/ Background

SpecIds == InitIds /\ [][NextIds]_vars

\* C23: a call of the ledger API with an entity id that is zero or negative
\* is rejected and leaves the cache as it was.
C23_InvalidIdRejected ==
    [][\A qq \in InvalidIds :
          ApiStepOn(qq) => (~last'.ok /\ cache' = cache)]_vars

----------------------------------------------------------------------------
(* The locks of the snapshot.  SpecSnap runs two API callers, step by step *)
(* as in SpecLock, against the timer thread at the start of a round:       *)
(* "for lock in self._shard_locks: lock.acquire()", the copy of the cache, *)
(* and the release of every lock in the finally block.                     *)

TimerThread == "timer"

\* the shard locks the timer thread holds
TimerHolds == {s \in Shards : locks[s] = TimerThread}

\* the lock the acquire loop of the timer thread is at
NextToLock == Cardinality(TimerHolds)

\* the sleep is over: _flush_to_file begins
SnapBegin ==
    /\ timer.pc = "sleep"
    /\ now >= timer.t
    /\ timer' = [timer EXCEPT !.pc = "lock"]
    /\ UNCHANGED <<cache, locks, thr, seq, calls, tasks>>
    /\ UNCHANGED <<file, now, truth, flushed, evicted, last>>

\* lock.acquire() of the next shard lock returns
SnapLock ==
    /\ timer.pc = "lock"
    /\ NextToLock < NUM_SHARDS
    /\ CanAcquire(locks, NextToLock, TimerThread)
    /\ locks' = [locks EXCEPT ![NextToLock] = TimerThread]
    /\ UNCHANGED <<cache, timer, thr, seq, calls, tasks>>
    /\ UNCHANGED <<file, now, truth, flushed, evicted, last>>

\* the try block: by_shard and round_tasks, under every shard lock
SnapCopy ==
    /\ timer.pc = "lock"
    /\ NextToLock = NUM_SHARDS
    /\ tasks' = tasks \cup
          {Task(s, now, "queued", [qq \in IdsOfShard(cache, s) |-> cache[qq]],
                EmptyData) : s \in RoundShards(cache)}
    /\ timer' = [timer EXCEPT !.pc = "unlock",
                              !.deferred = HeldShards(cache) \ RoundShards(cache)]
    /\ UNCHANGED <<cache, locks, thr, seq, calls>>
    /\ UNCHANGED <<file, now, truth, flushed, evicted, last>>

\* a round that ends without the finally block: the locks stay held
SnapKeepsLocks ==
    /\ timer.pc = "unlock"
    /\ timer' = [timer EXCEPT !.pc = "wait", !.t = now]
    /\ UNCHANGED <<cache, locks, thr, seq, calls, tasks>>
    /\ UNCHANGED <<file, now, truth, flushed, evicted, last>>

\* the finally block: "for lock in self._shard_locks: lock.release()"
SnapRelease ==
    /\ timer.pc = "unlock"
    /\ TimerHolds # {}
    /\ LET s == CHOOSE x \in TimerHolds : \A y \in TimerHolds : x <= y
       IN  locks' = [locks EXCEPT ![s] = NoThread]
    /\ timer' = IF Cardinality(TimerHolds) = 1
                THEN [timer EXCEPT !.pc = "wait", !.t = now]
                ELSE timer
    /\ UNCHANGED <<cache, thr, seq, calls, tasks>>
    /\ UNCHANGED <<file, now, truth, flushed, evicted, last>>

InitSnap ==
    /\ cache = EmptyMap
    /\ file = [FirstStart EXCEPT ![2] = FileOf("ok", (42 :> 10), EmptyMap)]
    /\ now = FLUSH_INTERVAL
    /\ timer = Sleeping(0)
    /\ tasks = {}
    /\ locks = [s \in Shards |-> NoThread]
    /\ thr = [c \in Callers |-> IdleCaller]
    /\ truth = NoTruth
    /\ flushed = (42 :> 10)
    /\ evicted = {}
    /\ seq = [qq \in LockIds |-> IF qq = 42 THEN 10 ELSE 0]
    /\ calls = 0
    /\ last = NoCall

NextSnap ==
    \/ \E c \in Callers : \E qq \in LockIds : CallGet(c, qq)
    \/ \E c \in Callers : \E qq \in LockIds : CallAdd(c, qq, 50)
    \/ \E c \in Callers : Acquire(c)
    \/ \E c \in Callers : Load(c)
    \/ \E c \in Callers : Touch(c)
    \/ \E c \in Callers : Read(c)
    \/ \E c \in Callers : Write(c)
    \/ \E c \in Callers : Release(c)
    \/ SnapBegin
    \/ SnapLock
    \/ SnapCopy
    \/ SnapRelease

SpecSnap == InitSnap /\ [][NextSnap]_vars

\* C24: while it takes the snapshot of a round the timer thread holds at
\* most one shard lock at any moment.
C24_SnapshotHoldsOneLock == Cardinality(TimerHolds) <= 1

\* caller c is inside its with block
HoldsLock(c) == thr[c].pc \in {"load", "touch", "read", "write", "release"}

\* caller c waits for its shard lock because of the call of caller o: o
\* holds the lock, or the thread that holds it waits for the lock o holds
BlockedBy(c, o) ==
    /\ thr[c].pc = "acquire"
    /\ ~CanAcquire(locks, _lock_for(thr[c].qq), c)
    /\ HoldsLock(o)
    /\ \/ locks[_lock_for(thr[c].qq)] = o
       \/ /\ locks[_lock_for(thr[c].qq)] = TimerThread
          /\ timer.pc = "lock"
          /\ NextToLock = _lock_for(thr[o].qq)

\* C25: an API call on an entity of one shard is never kept waiting by an
\* API call in progress on an entity of another shard.
C25_DifferentShardsNeverBlock ==
    \A c \in Callers : \A o \in Callers \ {c} :
        _lock_for(thr[c].qq) # _lock_for(thr[o].qq) => ~BlockedBy(c, o)

----------------------------------------------------------------------------
(* SpecRoute: the callers and the snapshot of SpecSnap together with the   *)
(* workers that write the round's shard files.                             *)

NextRoute ==
    \/ NextSnap
    \/ \E t \in tasks : WorkerRead(t)
    \/ \E t \in tasks : WorkerOpen(t)
    \/ \E t \in tasks : WorkerDump(t)

SpecRoute == InitSnap /\ [][NextRoute]_vars

\* what the file of shard s holds for qq
InFile(f, s, qq) == DictGet(_read_shard_file(f[s]).balances, qq, 0)

\* C26: for every entity id the lock its API calls hold, the file its
\* read-through load reads and the file its entry is flushed to are those
\* of shard id mod NUM_SHARDS, at every step.
C26_RoutingByIdModN ==
    [][/\ \A c \in Callers :
             HoldsLock(c)' => locks'[thr'[c].qq % NUM_SHARDS] = c
       /\ \A c \in Callers :
             (Load(c) /\ thr[c].qq \notin DOMAIN cache /\ thr'[c].ok) =>
                 cache'[thr[c].qq].bal =
                     InFile(file, thr[c].qq % NUM_SHARDS, thr[c].qq)
       /\ \A t \in tasks' :
             \A qq \in DOMAIN t.entries : t.sid = qq % NUM_SHARDS
       /\ \A t \in tasks :
             WorkerDump(t) =>
                 \A qq \in DOMAIN t.entries :
                     InFile(file', qq % NUM_SHARDS, qq) = t.entries[qq].bal
       /\ \A s \in Shards :
             \A qq \in DOMAIN file'[s].balances : s = qq % NUM_SHARDS]_vars

\* entity 7 was loaded under the lock of shard 3 and changed, and a worker
\* has written it to the file of shard 3
C26_Witness ==
    /\ 7 \in DOMAIN cache
    /\ InFile(file, 3, 7) = 50
    /\ \E t \in tasks : t.sid = 3 /\ t.pc = "done" /\ 7 \in DOMAIN t.entries

----------------------------------------------------------------------------
(* Workers of one shard.                                                    *)

\* the workers of shard s between their read of the file and the end of
\* their write
Working(s) == {t \in tasks : t.sid = s /\ t.pc \in {"merged", "opened"}}

\* C27: a round submits one worker for each shard it admits, and at no
\* time are two workers between the read and the write of the same shard
\* file, within a round or across rounds.
C27_OneWorkerPerShardFile ==
    [][/\ _flush_to_file =>
             \A s \in RoundShards(cache) :
                 Cardinality({t \in tasks' \ tasks : t.sid = s}) = 1
       /\ \A s \in Shards : Cardinality(Working(s)') <= 1]_vars

----------------------------------------------------------------------------
(* SpecClear: entity 1 starts with a claim date in its shard file; its     *)
(* date is set again, or cleared with set_last_daily_date(qq, "").         *)

DatedFile == [FirstStart EXCEPT ![1] = FileOf("ok", (1 :> 1), (1 :> Date2024))]

InitClear == InitWith(DatedFile, DateIds)

NextClear ==
    \/ \E qq \in DateIds : get_last_daily_date(qq)
    \/ \E qq \in DateIds : \E d \in {Date2024, NoDate} :
          set_last_daily_date(qq, d)
    \/ Background

SpecClear == InitClear /\ [][NextClear]_vars

\* C28: the write of a worker leaves the claim-date map of the file with an
\* entry for a flushed entity exactly when the entity's claim date in the
\* flushed entries is set, and the entry is then the date string, never a
\* placeholder: a date the file held for an entity without one is removed.
C28_DateEntryIffDateSet ==
    [][\A t \in tasks : WorkerDump(t) =>
          LET new == file'[t.sid].last_daily
          IN  \A qq \in DOMAIN t.entries :
                  /\ qq \in DOMAIN new <=> t.entries[qq].daily > 0
                  /\ qq \in DOMAIN new =>
                        /\ new[qq] # NoDate
                        /\ new[qq] = _date_int_to_str(t.entries[qq].daily)]_vars

\* a worker has written an entity without claim date over a file that held
\* a date for it: the date is gone from the file
C28_Witness ==
    \E t \in tasks :
        /\ t.pc = "done"
        /\ \E qq \in DOMAIN t.entries :
              /\ t.entries[qq].daily = 0
              /\ qq \in DOMAIN t.got.last_daily
              /\ qq \in DOMAIN file[t.sid].balances
              /\ qq \notin DOMAIN file[t.sid].last_daily

----------------------------------------------------------------------------
(* The end of the process.  The store has no stop or close method: the     *)
(* timer thread is a daemon thread and the executor is never shut down.    *)
(* The process ends by a crash or a kill, or by the os.execv of a restart  *)
(* (main.py), which replaces the process image at once: every thread stops *)
(* where it is, and the files stay as they are at that moment.             *)

Ends == {"crash", "execv"}

ProcessEnds(how) ==
    /\ timer.pc # "dead"
    /\ timer' = [timer EXCEPT !.pc = "dead"]
    /\ tasks' = {}
    /\ cache' = EmptyMap
    /\ last' = [NoCall EXCEPT !.op = how]
    /\ UNCHANGED <<file, now, truth, flushed, evicted, calls, lockvars>>

NextEnd ==
    \/ timer.pc # "dead" /\ NextRace
    \/ \E how \in Ends : ProcessEnds(how)

SpecEnd == InitRace /\ [][NextEnd]_vars

\* what the write of task t puts into its file
NewContent(t) == FileOf("ok", t.data.balances, t.data.last_daily)

\* C29: a crash while a worker is writing a shard file leaves the file with
\* all of its previous content or all of the new content.
C29_CrashLeavesWholeFile ==
    [][ProcessEnds("crash") =>
          \A t \in tasks :
              t.pc = "opened" => file'[t.sid] \in {t.old, NewContent(t)}]_vars

\* C30: the process is torn down for a restart only after every flush task
\* the executor holds has come to its end.
C30_TeardownAwaitsFlushTasks ==
    [][ProcessEnds("execv") => Pending(tasks) = {}]_vars

----------------------------------------------------------------------------
(* Eviction and what the files hold.                                        *)

\* C31: the eviction pass removes an entry only when the file of its shard
\* holds the entry's cached balance and claim date.
C31_EvictsOnlyPersisted ==
    [][_evict_inactive =>
          \A qq \in DOMAIN cache \ DOMAIN cache' :
              Persisted(file, qq) = Held(cache, file, qq)]_vars

\* C32: every call of the ledger API that returns leaves the entity cached
\* with last_activity at the time of the call, and the TTL pass of an
\* eviction keeps every entry used less than INACTIVE_TTL before it (the
\* cap pass may still remove it, and then leaves the cache at its cap).
C32_ApiCallTouches ==
    [][/\ \A qq \in Ids :
             (ApiStepOn(qq) /\ last'.ok) =>
                 /\ qq \in DOMAIN cache'
                 /\ cache'[qq].act = now
                 /\ cache'[qq].ord = calls'
       /\ _evict_inactive =>
             \A qq \in DOMAIN cache :
                 (now - cache[qq].act) < INACTIVE_TTL =>
                     \/ qq \in DOMAIN cache'
                     \/ Cardinality(DOMAIN cache') = MAX_CACHE_SIZE]_vars

\* an eviction pass, one interval or more after the start, has kept an
\* entry that a later call had used in the same tick
C32_Witness ==
    /\ last.op = "evict"
    /\ now >= INACTIVE_TTL
    /\ \E qq \in DOMAIN cache : cache[qq].act = now /\ cache[qq].ord > 1

----------------------------------------------------------------------------
(* The currency plugin (plugins/currency_plugin.py).  on_group_message is  *)
(* a plain function called from the event loop, so one command is handled  *)
(* at a time; each of its calls into the store is one step, and the timer  *)
(* thread and the workers run between them.  thr holds the handler: pc,    *)
(* the sender u, the payee v, the amount a, n (commands begun) and the     *)
(* history granted (the users rewarded today).                             *)

DAILY_REWARD == 100
MaxCmds == 3

Users == {1, 5}

\* date.today().isoformat()
Today == Date2024

Handler(pc, u, v, a, n, granted) ==
    [pc |-> pc, u |-> u, v |-> v, a |-> a, n |-> n, granted |-> granted]

IdleHandler(n, granted) == Handler("idle", 0, 0, 0, n, granted)

\* the cache after get_currency(qq) or get_last_daily_date(qq)
AfterGet(c, f, qq, t, n) == _touch(EnsureLoaded(c, f, qq, t, n), qq, t, n)

\* the cache after add_currency(qq, delta)
AfterAdd(c, f, qq, delta, t, n) ==
    LET c1 == EnsureLoaded(c, f, qq, t, n)
    IN  [c1 EXCEPT ![qq] = Entry(NewBalance(c1[qq].bal, delta), c1[qq].daily,
                                 t, n)]

\* the cache after set_last_daily_date(qq, date_str)
AfterSetDate(c, f, qq, date_str, t, n) ==
    LET c1 == EnsureLoaded(c, f, qq, t, n)
    IN  [c1 EXCEPT ![qq] = Entry(c1[qq].bal, _date_str_to_int(date_str), t, n)]

\* one call of the handler into the store: c is the cache the call leaves
\* and h the handler after it; an exception out of the load ends the
\* handler (handle_event logs it)
StoreCall(op, qq, c, h) ==
    /\ calls' = calls + 1
    /\ evicted' = evicted \ {qq}
    /\ IF LoadRaises(cache, file, qq)
       THEN /\ cache' = cache
            /\ thr' = IdleHandler(h.n, thr.granted)
            /\ last' = Call(op, qq, 0, NoDate, FALSE, FALSE, 0, 0, NoDate)
            /\ UNCHANGED truth
       ELSE /\ cache' = c
            /\ thr' = h
            /\ last' = Call(op, qq, 0, NoDate, TRUE, qq \in DOMAIN cache,
                            EnsureLoaded(cache, file, qq, now, calls + 1)[qq].bal,
                            c[qq].bal, _date_int_to_str(c[qq].daily))
            /\ truth' = IF op = "add"
                        THEN [truth EXCEPT !.bal = DictPut(@, qq, c[qq].bal)]
                        ELSE truth
    /\ UNCHANGED <<file, now, timer, tasks, flushed, locks, seq>>

Arrives == thr.pc = "idle" /\ thr.n < MaxCmds

\* /balance
BalanceCmd(u) ==
    /\ Arrives
    /\ StoreCall("get", u, AfterGet(cache, file, u, now, calls + 1),
                 IdleHandler(thr.n + 1, thr.granted))

\* /daily: last = store.get_last_daily_date(user_id); if last == today: return
DailyCheck(u) ==
    /\ Arrives
    /\ LET c == AfterGet(cache, file, u, now, calls + 1)
           lastd == _date_int_to_str(c[u].daily)
       IN  StoreCall("getdate", u, c,
                     IF lastd = Today
                     THEN IdleHandler(thr.n + 1, thr.granted)
                     ELSE Handler("daily_set", u, 0, 0, thr.n + 1, thr.granted))

\* store.set_last_daily_date(user_id, today)
DailySet ==
    /\ thr.pc = "daily_set"
    /\ StoreCall("setdate", thr.u,
                 AfterSetDate(cache, file, thr.u, Today, now, calls + 1),
                 [thr EXCEPT !.pc = "daily_add"])

\* new_balance = store.add_currency(user_id, DAILY_REWARD)
DailyAdd ==
    /\ thr.pc = "daily_add"
    /\ StoreCall("add", thr.u,
                 AfterAdd(cache, file, thr.u, DAILY_REWARD, now, calls + 1),
                 IdleHandler(thr.n, thr.granted \cup {thr.u}))

\* /pay: my_balance = store.get_currency(user_id); if my_balance < amount: return
PayCheck(u, v, a) ==
    /\ Arrives
    /\ a > 0
    /\ v # u
    /\ LET c == AfterGet(cache, file, u, now, calls + 1)
       IN  StoreCall("get", u, c,
                     IF c[u].bal < a
                     THEN IdleHandler(thr.n + 1, thr.granted)
                     ELSE Handler("pay_debit", u, v, a, thr.n + 1, thr.granted))

\* store.add_currency(user_id, -amount)
PayDebit ==
    /\ thr.pc = "pay_debit"
    /\ StoreCall("add", thr.u,
                 AfterAdd(cache, file, thr.u, 0 - thr.a, now, calls + 1),
                 [thr EXCEPT !.pc = "pay_credit"])

\* store.add_currency(target_qq, amount)
PayCredit ==
    /\ thr.pc = "pay_credit"
    /\ StoreCall("add", thr.v,
                 AfterAdd(cache, file, thr.v, thr.a, now, calls + 1),
                 [thr EXCEPT !.pc = "pay_reply"])

\* the reply reads store.get_currency(user_id)
PayReply ==
    /\ thr.pc = "pay_reply"
    /\ StoreCall("get", thr.u, AfterGet(cache, file, thr.u, now, calls + 1),
                 IdleHandler(thr.n, thr.granted))

PayAmounts == {DAILY_REWARD}

Funded == [FirstStart EXCEPT ![1] = FileOf("ok", (1 :> DAILY_REWARD
                                                  @@ 5 :> DAILY_REWARD),
                                           EmptyMap)]

InitPlugin ==
    /\ cache = EmptyMap
    /\ file = Funded
    /\ now = 0
    /\ timer = Sleeping(0)
    /\ tasks = {}
    /\ locks = [s \in Shards |-> NoThread]
    /\ thr = IdleHandler(0, {})
    /\ truth = [bal |-> (1 :> DAILY_REWARD @@ 5 :> DAILY_REWARD),
                date |-> EmptyMap]
    /\ flushed = FlushedOf(Funded, Users)
    /\ evicted = {}
    /\ seq = EmptyMap
    /\ calls = 0
    /\ last = NoCall

NextPlugin ==
    \/ \E u \in Users : BalanceCmd(u)
    \/ \E u \in Users : DailyCheck(u)
    \/ DailySet
    \/ DailyAdd
    \/ \E u \in Users : \E v \in Users : \E a \in PayAmounts : PayCheck(u, v, a)
    \/ PayDebit
    \/ PayCredit
    \/ PayReply
    \/ Background

SpecPlugin == InitPlugin /\ [][NextPlugin]_vars

\* C33: once a /daily of a user has been granted on a day, every later
\* /daily of that user on the same day is refused and leaves the balance
\* unchanged, whatever flush rounds and eviction passes happen in between.
C33_DailyOncePerDay ==
    [][/\ DailyAdd => thr.u \notin thr.granted
       /\ \A u \in thr.granted :
             (thr.pc = "idle" /\ thr'.n = thr.n + 1 /\ last'.op = "getdate"
              /\ last'.id = u /\ last'.ok) =>
                 /\ thr'.pc = "idle"
                 /\ cache'[u].bal = truth.bal[u]]_vars

\* the balance the store last acknowledged for qq
TrueBal(qq) == DictGet(truth.bal, qq, 0)

\* C34: a /pay of a > 0 from u to a different v is carried out only when
\* u's balance is at least a, and then lowers u's balance by exactly a and
\* raises v's by exactly a, so the sum of the two is unchanged.
C34_PayConserves ==
    [][/\ (thr.pc = "pay_debit" /\ thr'.pc = "pay_credit") =>
             /\ TrueBal(thr.u) >= thr.a
             /\ cache'[thr.u].bal = TrueBal(thr.u) - thr.a
       /\ (thr.pc = "pay_credit" /\ thr'.pc = "pay_reply") =>
             cache'[thr.v].bal = TrueBal(thr.v) + thr.a]_vars

----------------------------------------------------------------------------
(* Loads during a write.                                                   *)

\* C35: a read-through load that runs while a worker is writing the file of
\* the same shard installs the balance and claim date most recently
\* persisted for the entity, never the defaults of a truncated file.
C35_LoadSeesPersisted ==
    [][\A qq \in Ids :
          (ApiStepOn(qq) /\ last'.ok /\ ~last'.hit) =>
              \A t \in Writing(_shard_id(qq)) :
                  LET e == LoadedEntry(_read_shard_file(t.old), qq, 0, 0)
                  IN  /\ last'.pre = e.bal
                      /\ last'.op = "get" => cache'[qq].daily = e.daily]_vars

----------------------------------------------------------------------------
(* The locks of the eviction pass.  SpecEvict continues SpecRoute with     *)
(* _evict_inactive step by step: the acquire loop over every shard lock,   *)
(* the two passes under the locks, and the release loop of the finally     *)
(* block.  Entity 7 is resident since time 0, so it is due for the TTL     *)
(* pass unless a caller touches it.                                        *)

\* as_completed has returned every future: _evict_inactive begins
EvictBegin ==
    /\ timer.pc = "wait"
    /\ \A t \in tasks : Awaited(t) => t.pc = "done"
    /\ tasks' = {t \in tasks : ~Awaited(t)}
    /\ timer' = [timer EXCEPT !.pc = "evlock"]
    /\ UNCHANGED <<cache, locks, thr, seq, calls>>
    /\ UNCHANGED <<file, now, truth, flushed, evicted, last>>

\* lock.acquire() of the next shard lock returns
EvictLock ==
    /\ timer.pc = "evlock"
    /\ NextToLock < NUM_SHARDS
    /\ CanAcquire(locks, NextToLock, TimerThread)
    /\ locks' = [locks EXCEPT ![NextToLock] = TimerThread]
    /\ UNCHANGED <<cache, timer, thr, seq, calls, tasks>>
    /\ UNCHANGED <<file, now, truth, flushed, evicted, last>>

\* the sets ordered[: len(self._cache) - MAX_CACHE_SIZE] can be: steps of
\* two callers within one call count carry the same ord, and either of the
\* two entries can be the earlier one
CapChoices(c) ==
    IF Cardinality(DOMAIN c) <= MAX_CACHE_SIZE THEN {{}}
    ELSE {R \in SUBSET DOMAIN c :
            /\ Cardinality(R) = Cardinality(DOMAIN c) - MAX_CACHE_SIZE
            /\ \A r \in R : \A k \in DOMAIN c \ R : ~Earlier(c[k], c[r])}

\* the try block: the TTL pass and the cap pass, under every shard lock
EvictPass ==
    /\ timer.pc = "evlock"
    /\ NextToLock = NUM_SHARDS
    /\ LET c1 == TTLPass(cache, now)
       IN  \E R \in CapChoices(c1) :
             /\ cache' = [qq \in DOMAIN c1 \ R |-> c1[qq]]
             /\ evicted' = evicted \cup (DOMAIN cache \ DOMAIN c1)
             /\ last' = [NoCall EXCEPT !.op = "evict", !.arg = Cardinality(R)]
    /\ timer' = [timer EXCEPT !.pc = "evunlock"]
    /\ UNCHANGED <<locks, thr, seq, calls, tasks>>
    /\ UNCHANGED <<file, now, truth, flushed>>

\* the finally block of _evict_inactive, then the next sleep of run()
EvictRelease ==
    /\ timer.pc = "evunlock"
    /\ TimerHolds # {}
    /\ LET s == CHOOSE x \in TimerHolds : \A y \in TimerHolds : x <= y
       IN  locks' = [locks EXCEPT ![s] = NoThread]
    /\ timer' = IF Cardinality(TimerHolds) = 1
                THEN Asleep(now, {}, timer.deferred)
                ELSE timer
    /\ UNCHANGED <<cache, thr, seq, calls, tasks>>
    /\ UNCHANGED <<file, now, truth, flushed, evicted, last>>

InitEvict ==
    /\ cache = (7 :> Entry(0, 0, 0, 0))
    /\ file = [FirstStart EXCEPT ![2] = FileOf("ok", (42 :> 10), EmptyMap)]
    /\ now = FLUSH_INTERVAL
    /\ timer = Sleeping(0)
    /\ tasks = {}
    /\ locks = [s \in Shards |-> NoThread]
    /\ thr = [c \in Callers |-> IdleCaller]
    /\ truth = NoTruth
    /\ flushed = (42 :> 10)
    /\ evicted = {}
    /\ seq = [qq \in LockIds |-> IF qq = 42 THEN 10 ELSE 0]
    /\ calls = 0
    /\ last = NoCall

\* a step of caller c inside a call
CallerStep(c) ==
    Acquire(c) \/ Load(c) \/ Touch(c) \/ Read(c) \/ Write(c) \/ Release(c)

\* a step of the timer thread inside _flush_to_file or _evict_inactive
TimerStep ==
    \/ SnapLock
    \/ SnapCopy
    \/ SnapRelease
    \/ EvictBegin
    \/ EvictLock
    \/ EvictPass
    \/ EvictRelease

NextEvict ==
    \/ \E c \in Callers : \E qq \in LockIds : CallGet(c, qq)
    \/ \E c \in Callers : \E qq \in LockIds : CallAdd(c, qq, 50)
    \/ \E c \in Callers : CallerStep(c)
    \/ SnapBegin
    \/ TimerStep
    \/ \E t \in tasks : WorkerRead(t)
    \/ \E t \in tasks : WorkerOpen(t)
    \/ \E t \in tasks : WorkerDump(t)

SpecEvict == InitEvict /\ [][NextEvict]_vars

\* a step of a flush worker
PoolStep == \E t \in tasks : WorkerRead(t) \/ WorkerOpen(t) \/ WorkerDump(t)

\* a step of caller c inside get_currency
ReaderStep(c) == Acquire(c) \/ Load(c) \/ Touch(c) \/ Read(c) \/ Release(c)

NextEvictFair ==
    \/ \E c \in Callers : \E qq \in LockIds : CallGet(c, qq)
    \/ \E c \in Callers : ReaderStep(c)
    \/ SnapBegin
    \/ TimerStep
    \/ PoolStep

\* SpecEvictFair: the callers read only, and every thread that can take a
\* step keeps running
SpecEvictFair ==
    /\ InitEvict
    /\ [][NextEvictFair]_vars
    /\ \A c \in Callers : WF_vars(ReaderStep(c))
    /\ WF_vars(SnapBegin \/ TimerStep)
    /\ WF_vars(PoolStep)

\* C36: with API callers, the flush snapshot and the eviction pass running
\* together, every lock acquisition eventually succeeds: a caller waiting
\* for its shard lock gets it, and the acquire loops of the snapshot and of
\* the eviction pass get every lock and release them all again.
C36_NoDeadlock ==
    /\ \A c \in Callers : (thr[c].pc = "acquire") ~> (thr[c].pc = "load")
    /\ (timer.pc = "lock") ~> (timer.pc = "wait" /\ TimerHolds = {})
    /\ (timer.pc = "evlock") ~> (timer.pc = "sleep" /\ TimerHolds = {})

\* a caller waits for a lock the eviction pass holds, and another caller
\* has been made to wait too
C36_Witness ==
    /\ timer.pc = "evlock"
    /\ \E c \in Callers :
          /\ thr[c].pc = "acquire"
          /\ locks[_lock_for(thr[c].qq)] = TimerThread
    /\ \E c \in Callers : thr[c].pc = "done"

\* the callers past the ensure-loaded check of their call and before the
\* end of its cache accesses
Accessing == {c \in Callers : thr[c].pc \in {"touch", "read", "write"}}

\* C37: an entry that an API call in progress has found or loaded is still
\* resident when the call reads and rewrites it: the eviction pass removes
\* no entry between the ensure-loaded check and the later cache accesses,
\* so no call fails on a missing entry.
C37_ResidentWhileAccessed ==
    \A c \in Accessing :
        /\ thr[c].qq \in DOMAIN cache
        /\ locks[_lock_for(thr[c].qq)] = c

\* the acquire loop of the eviction pass waits for the lock of a caller that
\* is about to read an entry the TTL pass would remove
C37_Witness ==
    /\ timer.pc = "evlock"
    /\ \E c \in Accessing :
          /\ thr[c].pc = "read"
          /\ NextToLock = _lock_for(thr[c].qq)
          /\ Expired(cache[thr[c].qq], now)

----------------------------------------------------------------------------
(* The flush and the cache.                                                *)

\* a step of the flush of a round: the snapshot with the submission, a step
\* of a worker, or the exception out of f.result()
FlushStep ==
    \/ timer.pc = "sleep" /\ timer'.pc = "wait"
    \/ timer' = timer /\ tasks' # tasks
    \/ timer.pc = "wait" /\ last'.op = "raise"

\* C38: the flush of a round does not change the cache: the snapshot, the
\* workers and the wait for them leave every cached entry as it was.
C38_FlushKeepsCache ==
    [][FlushStep => cache' = cache]_vars

\* a worker of the running round has written a resident entry to its file
C38_Witness ==
    /\ last.op = "dump"
    /\ last.hit
    /\ \E qq \in DOMAIN cache :
          /\ _shard_id(qq) = last.arg
          /\ cache[qq].bal > 0
          /\ Persisted(file, qq).bal = cache[qq].bal

----------------------------------------------------------------------------
(* SpecFields: the balance calls and the claim-date calls on two entities  *)
(* of one shard; entity 1 starts with a balance and a claim date on file.  *)

InitFields == InitWith(DatedFile, Ids)

NextFields ==
    \/ \E qq \in Ids : get_currency(qq)
    \/ \E qq \in Ids : set_currency(qq, 1)
    \/ \E qq \in Ids : add_currency(qq, 1)
    \/ \E qq \in Ids : get_last_daily_date(qq)
    \/ \E qq \in Ids : \E d \in {Date2024, NoDate} : set_last_daily_date(qq, d)
    \/ Background

SpecFields == InitFields /\ [][NextFields]_vars

\* C39: the balance and the claim date of an entity are independent: the
\* claim-date calls leave its balance as the store held it, the balance
\* calls leave its claim date as the store held it, and no API call on one
\* entity changes the cached balance or claim date of another entity.
C39_FieldsIndependent ==
    [][\A qq \in Ids :
          ApiStepOn(qq) =>
              /\ (last'.ok /\ last'.op \in {"getdate", "setdate"}) =>
                     cache'[qq].bal = Held(cache, file, qq).bal
              /\ (last'.ok /\ last'.op \in {"get", "set", "add"}) =>
                     _date_int_to_str(cache'[qq].daily) =
                        Held(cache, file, qq).date
              /\ \A o \in Ids \ {qq} :
                     /\ o \in DOMAIN cache' <=> o \in DOMAIN cache
                     /\ o \in DOMAIN cache =>
                           /\ cache'[o].bal = cache[o].bal
                           /\ cache'[o].daily = cache[o].daily]_vars

\* a balance call has just run on an entity that has a claim date, with
\* the other entity resident without one
C39_Witness ==
    /\ last.op = "add"
    /\ last.ok
    /\ \E qq \in Ids : \E o \in Ids \ {qq} :
          /\ last.id = qq
          /\ qq \in DOMAIN cache
          /\ cache[qq].bal = 1
          /\ cache[qq].daily > 0
          /\ o \in DOMAIN cache
          /\ cache[o].daily = 0
====
